---- MODULE Spec2Model ----
(***************************************************************************)
(* Inventory ledger of the bodega application (inventario-bodega/src/     *)
(* App.jsx) and of its earlier evolution (unnamed/part_000, part_002).     *)
(* Spec feeds App.jsx from the form, the simulator and the table; SpecJSON *)
(* feeds it from the JSON tab; SpecV0 is the earlier handleProcessEvent    *)
(* with the earlier handleReturn; SpecTie starts App.jsx from two batches  *)
(* created in the same instant; SpecScan is the SimulatePanel, whose scans *)
(* and form submissions start operations that end later; SpecRace lets the *)
(* ventas of the simulator overlap; SpecDevice adds the onboarding, the    *)
(* reset and the choice of device; SpecRecovery is SpecDevice's recovery   *)
(* after a reset under fairness; SpecSeed is the simulator at the end of   *)
(* its seed phase.                                                         *)
(*                                                                         *)
(* The persistent store is the IndexedDB database opened by initDB: the    *)
(* object stores products, batches, sales, returns and movements.  Every   *)
(* handler is one action; the writes of a handler are staged one by one    *)
(* inside its transaction and the store may fail at any of them.           *)
(*                                                                         *)
(* Prices are integers (an amount in half units, so that price * 1.5 is    *)
(* exact on the even purchase prices used here).                           *)
(***************************************************************************)
EXTENDS Integers, Sequences, FiniteSets, TLC

\* ------------------------------------------------------------------ bounds

\* Number of committed handler invocations explored; each of them reads a later
\* value of the clock.
MaxTime == 3

Skus == {"A", "B"}

\* payload.quantity values of an ingreso or devolucion and of a venta (0 stands
\* for a missing or zero quantity, which the handler clamps to 1)
QtySet == {0, 2}
VentaQtySet == {0, 2, 3}

\* <<purchase_price, sale_price>> of an ingreso payload (0 = not given)
PricePairs == {<<2, 0>>}

\* quick-add form: quantity (input type=number min=0) and <<purchase, sale>> as
\* AddProductForm hands them on (it swaps or refuses purchase >= sale > 0)
QuickQty == {0, 2}
QuickPrices == {<<2, 4>>, <<2, 0>>}

\* ------------------------------------------------------------------ values

\* An IndexedDB key or a feed id: a string with a prefix ("SALE-" & ms) or a
\* plain number (pfx = "").  Two keys are equal iff prefix and number agree.
StrKey(p, n) == [pfx |-> p, t |-> n]
NumKey(n) == [pfx |-> "", t |-> n]
NoKey == [pfx |-> "null", t |-> 0]
NoId == 0

\* A lot string: its leading tokens and the number that follows them.
Lot(tokens, n) == [tag |-> tokens, n |-> n]
NoLot == Lot(<<>>, 0)
LotInputs == {NoLot}

\* String.prototype.startsWith on a lot
StartsWith(lot, prefix) ==
  /\ Len(lot.tag) >= Len(prefix)
  /\ SubSeq(lot.tag, 1, Len(prefix)) = prefix

Min(a, b) == IF a < b THEN a ELSE b
Max(a, b) == IF a > b THEN a ELSE b

\* JavaScript a || b on numbers
OrElse(a, b) == IF a # 0 THEN a ELSE b

\* JavaScript a || b on strings and lots
OrElseStr(a, b) == IF a # "" THEN a ELSE b
OrElseLot(a, b) == IF a # NoLot THEN a ELSE b

\* ------------------------------------------------------------------ state

VARIABLES
  db,                    \* "open" | "null": the App's db handle
  connected,             \* bracelet connected
  salesSensorConnected,  \* sales sensor connected
  products,              \* store products, keyed by sku
  batches,               \* store batches, in id order (id = position)
  sales,                 \* store sales, in insertion order
  returns,               \* store returns, in id order
  movements,             \* store movements, in id order
  events,                \* the event feed of ledger events, newest first
  uiBatches,             \* React state batches (last refreshData)
  now,                   \* the clock read by Date.now() / nowISO()
  last,                  \* the last handler invocation and its outcome
  panel,                 \* SimulatePanel: isScanning, continuousMode, the pending
                         \* scan timeouts and the ledger operations in flight
  app                    \* App state: settings, devices, selectedDevice,
                         \* simSinceReset

stores == <<products, batches, sales, returns, movements>>
vars == <<db, connected, salesSensorConnected, products, batches, sales,
          returns, movements, events, uiBatches, now, last, panel, app>>

\* The five stores as one value, as a transaction sees them.
Snapshot == [products |-> products, batches |-> batches, sales |-> sales,
             returns |-> returns, movements |-> movements]

NoProducts == [s \in {} |-> 0]

NoOp == [op |-> "none", result |-> "none", sku |-> "", quantity |-> 0, t |-> 0]

\* SimulatePanel after mount: useState(false) twice, no timeout pending, and no
\* handleProcessEvent in flight
\* what a handleSimulateScan closure holds of the props of its render:
\* simSinceReset, and whether batches shows a product with enough stock
NoClosure == [seed |-> 0 - 1, hasStock |-> FALSE]

\* the scan whose timeout fired last: its number since the reset, whether its
\* ingreso was forced by the seed test, its event, and whether the batches on
\* screen showed a product with enough stock at that moment
NoScan == [n |-> 0, forced |-> FALSE, event |-> "none", hasStock |-> FALSE]

PanelIdle ==
  [isScanning |-> FALSE, continuousMode |-> FALSE, timers |-> 0, inFlight |-> 0,
   ventas |-> <<>>, scans |-> <<>>, interval |-> NoClosure, lastScan |-> NoScan]

\* SIMULATED_DEVICES: PUL-001, PUL-002, PUL-003
DeviceIds == 1 .. 3

\* App once onboarding has named the operator of the first bracelet
AppReady ==
  [settings |-> "set",
   devices |-> <<"Ana", "", "">>,
   selectedDevice |-> [id |-> 1, operator |-> "Ana"],
   simSinceReset |-> 0]

\* the panel once a handler has run to its end: one operation less is in flight
Landed(p) == IF p.inFlight > 0 THEN [p EXCEPT !.inFlight = @ - 1] ELSE p

Init ==
  /\ db = "open"
  /\ connected = FALSE
  /\ salesSensorConnected = FALSE
  /\ products = NoProducts
  /\ batches = <<>>
  /\ sales = <<>>
  /\ returns = <<>>
  /\ movements = <<>>
  /\ events = <<>>
  /\ uiBatches = <<>>
  /\ now = 0
  /\ last = NoOp
  /\ panel = PanelIdle
  /\ app = AppReady

\* ------------------------------------------------------------------ payloads

Payload(ev, sku, barcode, name, q, prices, lot) ==
  [event |-> ev, sku |-> sku, barcode |-> barcode, name |-> name, quantity |-> q,
   purchase_price |-> prices[1], sale_price |-> prices[2], lot |-> lot]

\* Payloads that fail the basic validation of handleProcessEvent, and one that
\* names its product by barcode only.
OddPayloads(ev) ==
  { Payload(ev, "", "", "Producto", 1, <<2, 0>>, NoLot),
    Payload(ev, "A", "", "", 1, <<2, 0>>, NoLot),
    Payload(ev, "", "A", "Producto", 1, <<2, 0>>, NoLot) }

IngresoPayloads ==
  { Payload("ingreso", s, "", "Producto", q, pp, l) :
      s \in Skus, q \in QtySet, pp \in PricePairs, l \in LotInputs }
  \cup OddPayloads("ingreso")

\* The simulator and the form send a venta or devolucion without a lot of
\* their own choosing; the price of the payload is the sale price.
VentaPayloads ==
  { Payload("venta", s, "", "Producto", q, <<0, 4>>, NoLot) :
      s \in Skus, q \in VentaQtySet }
  \cup OddPayloads("venta")

DevolucionPayloads ==
  { Payload("devolucion", s, "", "Producto", q, <<2, 0>>, NoLot) : s \in Skus, q \in QtySet }
  \cup OddPayloads("devolucion")

\* ------------------------------------------------------------------ App.jsx

\* const movement = {...}: the base movement record of handleProcessEvent
BaseMovement(p, t) ==
  [type |-> p.event,
   sku |-> OrElseStr(p.sku, p.barcode),
   name |-> p.name,
   quantity |-> Max(1, OrElse(p.quantity, 0)),
   price |-> Max(0, OrElse(p.purchase_price, OrElse(p.sale_price, 0))),
   lot |-> OrElseLot(p.lot, Lot(<<"LOT-">>, t)),
   sale_id |-> NoKey,
   return_id |-> NoId]

\* The checks handleProcessEvent makes before it looks at payload.event
\* conn is the value of the connected state in the render whose
\* handleProcessEvent is called
PrecheckAs(p, conn) ==
  IF db # "open" \/ ~conn THEN "not_connected"
  ELSE IF p.sku = "" /\ p.barcode = "" THEN "missing_id"
  ELSE IF p.name = "" THEN "missing_name"
  ELSE "ok"

Precheck(p) == PrecheckAs(p, connected)

\* writes that are committed one by one, each in a transaction of its own
TxEachWriteAlone(stages, failAt) ==
  IF failAt = 0 THEN stages[Len(stages)] ELSE stages[failAt]

\* The outcome of a readwrite transaction.  stages[1] is the store when the
\* transaction starts and stages[i + 1] the store after its write i; failAt = 0
\* when every request succeeds, failAt = i when the store rejects write i.  All
\* writes of a handler go through the one tx it opened, and awaiting a rejected
\* request throws into the handler's catch, so the transaction aborts as a whole.
TxResult(stages, failAt) ==
  IF failAt = 0 THEN stages[Len(stages)] ELSE stages[1]

\* What every handler does with the outcome: the stores, the record of the
\* invocation, and the clock, which the state remembers only through the records
\* a committed handler wrote.  Only a committed handler reaches setEvents and
\* refreshData.  A rejection is remembered by its kind, and a rejection for a
\* missing name also by the sku that the payload named.
FinishAs(op, result, sku, q, snap, feed, p) ==
  /\ products' = snap.products
  /\ batches' = snap.batches
  /\ sales' = snap.sales
  /\ returns' = snap.returns
  /\ movements' = snap.movements
  /\ events' = IF result = "ok" THEN feed ELSE events
  /\ uiBatches' = IF result = "ok" THEN snap.batches ELSE uiBatches
  /\ now' = IF result = "ok" THEN now + 1 ELSE now
  /\ last' = IF result = "ok"
             THEN [op |-> op, result |-> result, sku |-> sku, quantity |-> q, t |-> now + 1]
             ELSE [op |-> op, result |-> result,
                   sku |-> IF result = "missing_name" THEN sku ELSE "",
                   quantity |-> 0, t |-> now]
  /\ panel' = p
  /\ UNCHANGED <<app, db, connected, salesSensorConnected>>

\* the end of a handler that was counted as in flight, if any was
Finish(op, result, sku, q, snap, feed) ==
  FinishAs(op, result, sku, q, snap, feed, Landed(panel))

\* prev.slice(0, 19): how many older feed entries setEvents keeps
FeedKeep == 19

\* setEvents(prev => [{id: Date.now(), ...movement, type, ...}, ...prev.slice(0, 19)])
PushEvent(feed, m, type, t) ==
  <<[id |-> NumKey(t), type |-> type, sku |-> m.sku, name |-> m.name,
     quantity |-> m.quantity]>>
  \o SubSeq(feed, 1, Min(Len(feed), FeedKeep))

\* stages of the ingreso transaction: product upsert, batch add, movement add
\* the ingreso with a put of the Product whether or not it exists
IngresoStagesUpsert(snap, p, m, t) ==
  LET product == [sku |-> m.sku, name |-> m.name,
                  default_purchase_price |-> m.price,
                  default_sale_price |-> OrElse(p.sale_price, (m.price * 3) \div 2),
                  created_at |-> t]
      batch == [id |-> Len(snap.batches) + 1, product_sku |-> m.sku, lot |-> m.lot,
                quantity |-> m.quantity, purchase_price |-> m.price,
                created_at |-> t, status |-> "", return_id |-> NoId]
      s1 == [snap EXCEPT !.products =
               [k \in DOMAIN @ \cup {m.sku} |-> product] @@ @]
      s2 == [s1 EXCEPT !.batches = Append(@, batch)]
      s3 == [s2 EXCEPT !.movements =
               Append(@, [m EXCEPT !.type = "ingreso_inventario"])]
  IN <<snap, s1, s2, s3>>

IngresoStages(snap, p, m, t) ==
  LET product == [sku |-> m.sku, name |-> m.name,
                  default_purchase_price |-> m.price,
                  default_sale_price |-> OrElse(p.sale_price, (m.price * 3) \div 2),
                  created_at |-> t]
      batch == [id |-> Len(snap.batches) + 1, product_sku |-> m.sku, lot |-> m.lot,
                quantity |-> m.quantity, purchase_price |-> m.price,
                created_at |-> t, status |-> "", return_id |-> NoId]
      s1 == IF m.sku \in DOMAIN snap.products THEN snap
            ELSE [snap EXCEPT !.products = (m.sku :> product) @@ @]
      s2 == [s1 EXCEPT !.batches = Append(@, batch)]
      s3 == [s2 EXCEPT !.movements =
               Append(@, [m EXCEPT !.type = "ingreso_inventario"])]
  IN IF m.sku \in DOMAIN snap.products THEN <<snap, s2, s3>>
     ELSE <<snap, s1, s2, s3>>

\* handleProcessEvent(payload) with payload.event === 'ingreso', for a payload
\* of the given set
ProcessIngresoAs(payloads, conn) ==
  /\ now < MaxTime
  /\ \E p \in payloads :
       LET t == now + 1
           m == BaseMovement(p, t)
           pre == PrecheckAs(p, conn)
       IN IF pre # "ok"
          THEN Finish("ingreso", pre, m.sku, m.quantity, Snapshot, events)
          ELSE LET stages == IngresoStages(Snapshot, p, m, t)
               IN \E failAt \in 0 .. (Len(stages) - 1) :
                    Finish("ingreso",
                           IF failAt = 0 THEN "ok" ELSE "storage_error",
                           m.sku, m.quantity, TxResult(stages, failAt),
                           PushEvent(events, m, "ingreso_inventario", t))

\* called from the current render: the guard reads the current connected
ProcessIngreso(payloads) == ProcessIngresoAs(payloads, connected)

\* an ingreso sent by the form or by the scan simulator
Ingreso == ProcessIngreso(IngresoPayloads)

\* b.product_sku === movement.sku && !b.lot?.startsWith('DEV-')
CountsAsStock(b, sku) ==
  /\ b.product_sku = sku
  /\ ~StartsWith(b.lot, <<"DEV-">>)

RECURSIVE SumQuantity(_)
SumQuantity(s) == IF s = <<>> THEN 0 ELSE Head(s).quantity + SumQuantity(Tail(s))

\* totalStock of the venta check
TotalStock(bs, sku) ==
  SumQuantity(SelectSeq(bs, LAMBDA b : CountsAsStock(b, sku)))

\* the filter of productBatches
EligibleForSale(b, sku) ==
  /\ b.product_sku = sku
  /\ b.quantity > 0
  /\ ~StartsWith(b.lot, <<"DEV-">>)

\* a comparator that also puts a batch before one of equal created_at
CreatedNotAfter(a, b) == a.created_at <= b.created_at

\* a comparator that puts the newest batch first
CreatedAfter(a, b) == a.created_at > b.created_at

\* the comparator of productBatches.sort: a goes before b
CreatedBefore(a, b) == a.created_at < b.created_at

\* Array.prototype.sort with that comparator (a stable sort)
RECURSIVE InsertSorted(_, _)
InsertSorted(sorted, b) ==
  IF sorted = <<>> THEN <<b>>
  ELSE LET n == Len(sorted)
       IN IF CreatedBefore(b, sorted[n])
          THEN Append(InsertSorted(SubSeq(sorted, 1, n - 1), b), sorted[n])
          ELSE Append(sorted, b)

RECURSIVE SortByCreatedAt(_)
SortByCreatedAt(s) ==
  IF s = <<>> THEN <<>>
  ELSE InsertSorted(SortByCreatedAt(SubSeq(s, 1, Len(s) - 1)), s[Len(s)])

\* a loop that takes what is still needed from the batch at hand
TakeUnclamped(quantity, remaining) == remaining

\* const take = Math.min(batch.quantity, remaining)
Take(quantity, remaining) == Min(quantity, remaining)

\* a FIFO loop that records the whole quantity of each batch it touches
RECURSIVE ConsumeWhole(_, _)
ConsumeWhole(productBatches, remaining) ==
  IF productBatches = <<>> \/ remaining <= 0 THEN <<>>
  ELSE LET batch == Head(productBatches)
           take == Take(batch.quantity, remaining)
       IN <<[batchId |-> batch.id, quantity |-> batch.quantity,
             purchase_price |-> batch.purchase_price]>>
          \o ConsumeWhole(Tail(productBatches), remaining - take)

\* the FIFO loop: the batchesUsed it builds from productBatches
RECURSIVE Consume(_, _)
Consume(productBatches, remaining) ==
  IF productBatches = <<>> \/ remaining <= 0 THEN <<>>
  ELSE LET batch == Head(productBatches)
           take == Take(batch.quantity, remaining)
       IN <<[batchId |-> batch.id, quantity |-> take,
             purchase_price |-> batch.purchase_price]>>
          \o Consume(Tail(productBatches), remaining - take)

\* a loop whose puts start from the stored batches each time, so that only the
\* decrement of the last batch used remains
PutLast(bs, used, n) ==
  IF n = 0 THEN bs
  ELSE [bs EXCEPT ![used[n].batchId].quantity = @ - used[n].quantity]

\* batch.quantity -= take; await batchStore.put(batch), for the first n entries
RECURSIVE PutUsed(_, _, _)
PutUsed(bs, used, n) ==
  IF n = 0 THEN bs
  ELSE LET u == used[n]
       IN [PutUsed(bs, used, n - 1) EXCEPT ![u.batchId].quantity = @ - u.quantity]

\* stages of the venta transaction: one put per batch used, sale add, movement add
VentaStages(snap, m, t) ==
  LET productBatches ==
        SortByCreatedAt(SelectSeq(snap.batches, LAMBDA b : EligibleForSale(b, m.sku)))
      batchesUsed == Consume(productBatches, m.quantity)
      k == Len(batchesUsed)
      saleId == StrKey("SALE-", t)
      sale == [id |-> saleId, sku |-> m.sku, product_name |-> m.name,
               quantity |-> m.quantity, sale_price |-> m.price,
               total |-> m.quantity * m.price, status |-> "completed",
               batches_used |-> batchesUsed]
      puts == [i \in 1 .. k |-> [snap EXCEPT !.batches = PutUsed(@, batchesUsed, i)]]
      afterPuts == [snap EXCEPT !.batches = PutUsed(@, batchesUsed, k)]
      s1 == [afterPuts EXCEPT !.sales = Append(@, sale)]
      s2 == [s1 EXCEPT !.movements =
               Append(@, [m EXCEPT !.type = "venta", !.sale_id = saleId])]
  IN <<snap>> \o puts \o <<s1, s2>>

\* handleProcessEvent(payload) with payload.event === 'venta'
Venta ==
  /\ now < MaxTime
  /\ \E p \in VentaPayloads :
       LET t == now + 1
           m0 == BaseMovement(p, t)
           pre == Precheck(p)
           known == m0.sku \in DOMAIN products
           \* movement.price = product.default_sale_price || movement.price
           m == IF known
                THEN [m0 EXCEPT !.price = OrElse(products[m0.sku].default_sale_price, @)]
                ELSE m0
       IN IF pre # "ok"
          THEN Finish("venta", pre, m.sku, m.quantity, Snapshot, events)
          ELSE IF ~connected \/ ~salesSensorConnected
          THEN Finish("venta", "sensor_required", m.sku, m.quantity, Snapshot, events)
          ELSE IF ~known
          THEN Finish("venta", "product_not_found", m.sku, m.quantity, Snapshot, events)
          ELSE IF m.quantity > TotalStock(batches, m.sku)
          THEN Finish("venta", "insufficient_stock", m.sku, m.quantity, Snapshot, events)
          ELSE LET stages == VentaStages(Snapshot, m, t)
               IN \E failAt \in 0 .. (Len(stages) - 1) :
                    Finish("venta",
                           IF failAt = 0 THEN "ok" ELSE "storage_error",
                           m.sku, m.quantity, TxResult(stages, failAt),
                           PushEvent(events, m, "venta", t))

\* soldTotal: the completed sales of the sku
SoldTotal(ss, sku) ==
  SumQuantity(SelectSeq(ss, LAMBDA x : x.sku = sku /\ x.status = "completed"))

\* returnedTotal: every record of the returns store with that sku
ReturnedTotal(rs, sku) ==
  SumQuantity(SelectSeq(rs, LAMBDA r : r.sku = sku))

\* stages of the devolucion transaction: return add, batch add, movement add
DevolucionStages(snap, m, t) ==
  LET returnId == Len(snap.returns) + 1
      ret == [id |-> returnId, sku |-> m.sku, quantity |-> m.quantity,
              price |-> m.price, original_sale_id |-> NoKey,
              original_batch_id |-> NoId, status |-> "completed",
              type |-> m.type]
      batch == [id |-> Len(snap.batches) + 1, product_sku |-> m.sku,
                lot |-> Lot(<<"DEV-">>, returnId), quantity |-> m.quantity,
                purchase_price |-> m.price, created_at |-> t, status |-> "",
                return_id |-> returnId]
      s1 == [snap EXCEPT !.returns = Append(@, ret)]
      s2 == [s1 EXCEPT !.batches = Append(@, batch)]
      s3 == [s2 EXCEPT !.movements =
               Append(@, [m EXCEPT !.type = "devolucion_venta", !.return_id = returnId])]
  IN <<snap, s1, s2, s3>>

\* handleProcessEvent(payload) with payload.event === 'devolucion'
Devolucion ==
  /\ now < MaxTime
  /\ \E p \in DevolucionPayloads :
       LET t == now + 1
           m == BaseMovement(p, t)
           pre == Precheck(p)
       IN IF pre # "ok"
          THEN Finish("devolucion", pre, m.sku, m.quantity, Snapshot, events)
          ELSE IF m.quantity > SoldTotal(sales, m.sku) - ReturnedTotal(returns, m.sku)
          THEN Finish("devolucion", "over_return", m.sku, m.quantity, Snapshot, events)
          ELSE LET stages == DevolucionStages(Snapshot, m, t)
               IN \E failAt \in 0 .. (Len(stages) - 1) :
                    Finish("devolucion",
                           IF failAt = 0 THEN "ok" ELSE "storage_error",
                           m.sku, m.quantity, TxResult(stages, failAt),
                           PushEvent(events, m, "devolucion_venta", t))

\* salesStore.get(key): the position of the sale with that key, 0 when absent
SaleIndex(ss, key) ==
  IF \E i \in 1 .. Len(ss) : ss[i].id = key
  THEN CHOOSE i \in 1 .. Len(ss) : ss[i].id = key
  ELSE 0

\* const sale = await salesStore.get(saleEvent.id)
UndoLookupKey(saleEvent) == saleEvent.id

\* stages of the undo transaction: return add, batch add, sale put, movement add
UndoStages(snap, saleEvent, i, t) ==
  LET sale == snap.sales[i]
      returnId == Len(snap.returns) + 1
      \* price: sale.price || 0 (a sale record has sale_price, no price)
      ret == [id |-> returnId, sku |-> saleEvent.sku, quantity |-> saleEvent.quantity,
              price |-> 0, original_sale_id |-> saleEvent.id,
              original_batch_id |-> NoId, status |-> "completed", type |-> ""]
      \* purchase_price: sale.batches_used?.[0]?.purchase_price || 0
      batch == [id |-> Len(snap.batches) + 1, product_sku |-> saleEvent.sku,
                lot |-> Lot(<<"UNDO-">>, returnId), quantity |-> saleEvent.quantity,
                purchase_price |-> IF sale.batches_used = <<>> THEN 0
                                   ELSE sale.batches_used[1].purchase_price,
                created_at |-> t, status |-> "", return_id |-> returnId]
      mov == [type |-> "anulacion_venta", sku |-> saleEvent.sku, name |-> saleEvent.name,
              quantity |-> saleEvent.quantity, price |-> 0, lot |-> NoLot,
              sale_id |-> saleEvent.id, return_id |-> returnId]
      s1 == [snap EXCEPT !.returns = Append(@, ret)]
      s2 == [s1 EXCEPT !.batches = Append(@, batch)]
      s3 == [s2 EXCEPT !.sales[i].status = "cancelled"]
      s4 == [s3 EXCEPT !.movements = Append(@, mov)]
  IN <<snap, s1, s2, s3, s4>>

\* handleUndoSale(saleEvent): the feed shows its button on entries of type venta.
\* A committed undo refreshes the data and leaves the feed as it is.
UndoSale ==
  /\ now < MaxTime
  /\ db = "open"
  /\ \E n \in 1 .. Len(events) :
       LET saleEvent == events[n]
           t == now + 1
           i == SaleIndex(sales, UndoLookupKey(saleEvent))
       IN /\ saleEvent.type = "venta"
          /\ IF i = 0
             THEN Finish("undo", "sale_not_found", "", 0, Snapshot, events)
             ELSE IF sales[i].status = "cancelled"
             THEN Finish("undo", "already_cancelled", "", 0, Snapshot, events)
             ELSE LET stages == UndoStages(Snapshot, saleEvent, i, t)
                  IN \E failAt \in 0 .. (Len(stages) - 1) :
                       Finish("undo",
                              IF failAt = 0 THEN "ok" ELSE "storage_error",
                              saleEvent.sku, saleEvent.quantity,
                              TxResult(stages, failAt), events)

\* The rows of the inventory section that show the return button:
\* sectionBatches of 'inventario', and !isReturned && !lot.startsWith('INIT-')
ReturnButtonShown(b) ==
  /\ ~StartsWith(b.lot, <<"DEV-">>)
  /\ ~StartsWith(b.lot, <<"UNDO-">>)
  /\ ~StartsWith(b.lot, <<"INIT-">>)

\* quantity of the devolucion_inventario movement: existing.quantity, read after
\* existing.quantity = 0
ReturnMovementQuantity(before, after) == after.quantity

\* an inventory return that puts its movement under the key of the last one
InventoryReturnOverwrites(snap, id) ==
  LET before == snap.batches[id]
      returnId == Len(snap.returns) + 1
      ret == [id |-> returnId, sku |-> before.product_sku, quantity |-> before.quantity,
              price |-> before.purchase_price, original_sale_id |-> NoKey,
              original_batch_id |-> id, status |-> "completed",
              type |-> "inventory_return"]
      existing == [before EXCEPT !.lot = Lot(<<"DEV-", "INV-">>, returnId),
                                 !.status = "returned",
                                 !.return_id = returnId,
                                 !.quantity = 0]
      mov == [type |-> "devolucion_inventario", sku |-> existing.product_sku,
              name |-> existing.product_sku, quantity |-> 0,
              price |-> existing.purchase_price, lot |-> existing.lot,
              sale_id |-> NoKey, return_id |-> returnId]
      s1 == [snap EXCEPT !.returns = Append(@, ret)]
      s2 == [s1 EXCEPT !.batches[id] = existing]
      s3 == [s2 EXCEPT !.movements =
               IF @ = <<>> THEN <<mov>> ELSE [@ EXCEPT ![Len(@)] = mov]]
  IN <<snap, s1, s2, s3>>

\* stages of the inventory-return transaction: return add, batch put, movement add
InventoryReturnStages(snap, id) ==
  LET before == snap.batches[id]
      returnId == Len(snap.returns) + 1
      ret == [id |-> returnId, sku |-> before.product_sku, quantity |-> before.quantity,
              price |-> before.purchase_price, original_sale_id |-> NoKey,
              original_batch_id |-> id, status |-> "completed",
              type |-> "inventory_return"]
      existing == [before EXCEPT !.lot = Lot(<<"DEV-", "INV-">>, returnId),
                                 !.status = "returned",
                                 !.return_id = returnId,
                                 !.quantity = 0]
      mov == [type |-> "devolucion_inventario", sku |-> existing.product_sku,
              name |-> IF existing.product_sku \in DOMAIN snap.products
                       THEN snap.products[existing.product_sku].name
                       ELSE existing.product_sku,
              quantity |-> ReturnMovementQuantity(before, existing),
              price |-> existing.purchase_price, lot |-> existing.lot,
              sale_id |-> NoKey, return_id |-> returnId]
      s1 == [snap EXCEPT !.returns = Append(@, ret)]
      s2 == [s1 EXCEPT !.batches[id] = existing]
      s3 == [s2 EXCEPT !.movements = Append(@, mov)]
  IN <<snap, s1, s2, s3>>

\* handleReturn(batch, 'inventario'), from the button of a row of the table
InventoryReturn ==
  /\ now < MaxTime
  /\ db = "open"
  /\ \E n \in 1 .. Len(uiBatches) :
       LET batch == uiBatches[n]
       IN /\ ReturnButtonShown(batch)
          /\ IF batch.id > Len(batches)
             THEN Finish("inventory_return", "batch_not_found", "", 0, Snapshot, events)
             ELSE IF batches[batch.id].status = "returned"
             THEN Finish("inventory_return", "already_returned", "", 0, Snapshot, events)
             ELSE LET stages == InventoryReturnStages(Snapshot, batch.id)
                  IN \E failAt \in 0 .. (Len(stages) - 1) :
                       Finish("inventory_return",
                              IF failAt = 0 THEN "ok" ELSE "storage_error",
                              batches[batch.id].product_sku, batches[batch.id].quantity,
                              TxResult(stages, failAt), events)

\* stages of the quick-add transaction (stores products and batches only):
\* product put, batch add
AddProductStages(snap, sku, q, prices, t) ==
  LET product == [sku |-> sku, name |-> "Producto",
                  default_purchase_price |-> prices[1],
                  default_sale_price |-> prices[2],
                  created_at |-> t]
      batch == [id |-> Len(snap.batches) + 1, product_sku |-> sku,
                lot |-> Lot(<<"INIT-">>, t), quantity |-> q,
                purchase_price |-> prices[1], created_at |-> t, status |-> "",
                return_id |-> NoId]
      s1 == [snap EXCEPT !.products =
               [x \in DOMAIN @ \cup {sku} |-> IF x = sku THEN product ELSE @[x]]]
      s2 == [s1 EXCEPT !.batches = Append(@, batch)]
  IN <<snap, s1, s2>>

\* handleAddProduct(productPayload), from AddProductForm (sku and name present)
AddProduct ==
  /\ now < MaxTime
  /\ db = "open"
  /\ \E sku \in Skus, q \in QuickQty, prices \in QuickPrices :
       IF prices[2] <= prices[1]
       THEN Finish("add_product", "invalid_price", "", 0, Snapshot, events)
       ELSE LET stages == AddProductStages(Snapshot, sku, q, prices, now + 1)
            IN \E failAt \in 0 .. (Len(stages) - 1) :
                 Finish("add_product",
                        IF failAt = 0 THEN "ok" ELSE "storage_error",
                        sku, q, TxResult(stages, failAt), events)

\* ------------------------------------------------------------------ device panel

\* handleConnect (the selected bracelet has an operator once onboarding is done)
Connect ==
  /\ app.settings = "set"
  /\ ~connected
  /\ app.selectedDevice.operator # ""
  /\ connected' = TRUE
  /\ UNCHANGED <<app, db, salesSensorConnected, stores, events, uiBatches, now, last, panel>>

\* handleDisconnect
Disconnect ==
  /\ app.settings = "set"
  /\ connected
  /\ connected' = FALSE
  /\ UNCHANGED <<app, db, salesSensorConnected, stores, events, uiBatches, now, last, panel>>

\* onSensorConnect / onSensorDisconnect: the button is disabled while the
\* bracelet is not connected
SensorToggle ==
  /\ app.settings = "set"
  /\ connected
  /\ salesSensorConnected' = ~salesSensorConnected
  /\ UNCHANGED <<app, db, connected, stores, events, uiBatches, now, last, panel>>

\* ------------------------------------------------------------------ part_002
\* The earlier handleProcessEvent (unnamed/part_002; unnamed/part_000 has the
\* same text): one transaction over products, batches and movements, opened
\* first, and the movement added before payload.event is looked at.

\* const movement = {...} of the earlier handleProcessEvent
BaseMovementV0(p) ==
  [type |-> p.event,
   sku |-> OrElseStr(p.sku, p.barcode),
   name |-> OrElseStr(p.name, "Producto sin nombre"),
   quantity |-> OrElse(p.quantity, 1),
   price |-> OrElse(p.purchase_price, OrElse(p.sale_price, 0)),
   lot |-> p.lot,
   sale_id |-> NoKey,
   return_id |-> NoId]

\* await tx.objectStore('movements').add(movement): the first write of every event
MovementFirstV0(snap, m) == [snap EXCEPT !.movements = Append(@, m)]

\* totalStock of the earlier venta check: every batch of the sku
TotalStockV0(bs, sku) ==
  SumQuantity(SelectSeq(bs, LAMBDA b : b.product_sku = sku))

\* sold and returned of the earlier devolucion check, read from the movements
\* store inside the transaction (the movement just added is among them)
MovedV0(ms, sku, type) ==
  SumQuantity(SelectSeq(ms, LAMBDA x : x.sku = sku /\ x.type = type))

\* What the earlier handler does with the outcome.  A denied venta or devolucion
\* awaits tx.done and returns: the transaction commits what it wrote so far.
FinishV0(op, result, sku, q, snap, feed) ==
  /\ products' = snap.products
  /\ batches' = snap.batches
  /\ movements' = snap.movements
  /\ events' = IF result = "ok" THEN feed ELSE events
  /\ uiBatches' = IF result = "ok" THEN snap.batches ELSE uiBatches
  /\ now' = IF snap.movements # movements THEN now + 1 ELSE now
  /\ last' = IF snap.movements # movements
             THEN [op |-> op, result |-> result, sku |-> sku, quantity |-> q, t |-> now + 1]
             ELSE [op |-> op, result |-> result, sku |-> "", quantity |-> 0, t |-> now]
  /\ panel' = Landed(panel)
  /\ UNCHANGED <<app, db, connected, salesSensorConnected, sales, returns>>

\* setEvents(prev => [{id: Date.now(), ...movement}, ...prev.slice(0, 19)])
PushEventV0(feed, m, t) ==
  <<[id |-> NumKey(t), type |-> m.type, sku |-> m.sku, name |-> m.name,
     quantity |-> m.quantity]>>
  \o SubSeq(feed, 1, Min(Len(feed), FeedKeep))

\* stages of an earlier ingreso: movement add, product upsert, batch add
IngresoStagesV0(snap, p, m, t) ==
  LET product == [sku |-> m.sku, name |-> m.name,
                  default_purchase_price |-> m.price,
                  default_sale_price |-> OrElse(p.sale_price, (m.price * 3) \div 2),
                  created_at |-> t]
      batch == [id |-> Len(snap.batches) + 1, product_sku |-> m.sku,
                lot |-> OrElseLot(m.lot, Lot(<<"AUTO-">>, t)),
                quantity |-> m.quantity, purchase_price |-> m.price,
                created_at |-> t, status |-> "", return_id |-> NoId]
      s1 == MovementFirstV0(snap, m)
      s2 == IF m.sku \in DOMAIN snap.products THEN s1
            ELSE [s1 EXCEPT !.products = (m.sku :> product) @@ @]
      s3 == [s2 EXCEPT !.batches = Append(@, batch)]
  IN IF m.sku \in DOMAIN snap.products THEN <<snap, s1, s3>>
     ELSE <<snap, s1, s2, s3>>

\* stages of an earlier venta: movement add, one put per batch used
VentaStagesV0(snap, m) ==
  LET productBatches ==
        SortByCreatedAt(SelectSeq(snap.batches,
                                  LAMBDA b : b.product_sku = m.sku /\ b.quantity > 0))
      used == Consume(productBatches, m.quantity)
      s1 == MovementFirstV0(snap, m)
  IN <<snap, s1>>
     \o [i \in 1 .. Len(used) |-> [s1 EXCEPT !.batches = PutUsed(@, used, i)]]

\* stages of an earlier devolucion: movement add, batch add
DevolucionStagesV0(snap, m, t) ==
  LET batch == [id |-> Len(snap.batches) + 1, product_sku |-> m.sku,
                lot |-> OrElseLot(m.lot, Lot(<<"DEV-">>, t)),
                quantity |-> m.quantity, purchase_price |-> m.price,
                created_at |-> t, status |-> "", return_id |-> NoId]
      s1 == MovementFirstV0(snap, m)
  IN <<snap, s1, [s1 EXCEPT !.batches = Append(@, batch)]>>

\* The earlier handleProcessEvent(payload), for the three kinds of event
ProcessEventV0(p) ==
  LET t == now + 1
      m == BaseMovementV0(p)
      stages == IF p.event = "ingreso" THEN IngresoStagesV0(Snapshot, p, m, t)
                ELSE IF p.event = "venta" THEN VentaStagesV0(Snapshot, m)
                ELSE DevolucionStagesV0(Snapshot, m, t)
      inTx == stages[2]
      denied ==
        IF p.event = "venta"
        THEN IF m.quantity > TotalStockV0(inTx.batches, m.sku)
             THEN "insufficient_stock" ELSE "ok"
        ELSE IF p.event = "devolucion"
        THEN IF MovedV0(inTx.movements, m.sku, "devolucion") + m.quantity
                  > MovedV0(inTx.movements, m.sku, "venta")
             THEN "over_return" ELSE "ok"
        ELSE "ok"
  IN IF db # "open" \/ ~connected
     THEN FinishV0(p.event, "not_connected", m.sku, m.quantity, Snapshot, events)
     ELSE IF denied # "ok"
     THEN \E failAt \in 0 .. 1 :
            FinishV0(p.event, IF failAt = 0 THEN denied ELSE "storage_error",
                     m.sku, m.quantity, TxResult(<<Snapshot, inTx>>, failAt), events)
     ELSE \E failAt \in 0 .. (Len(stages) - 1) :
            FinishV0(p.event, IF failAt = 0 THEN "ok" ELSE "storage_error",
                     m.sku, m.quantity, TxResult(stages, failAt),
                     PushEventV0(events, m, t))

IngresoV0 ==
  /\ now < MaxTime
  /\ \E p \in IngresoPayloads : ProcessEventV0(p)

VentaV0 ==
  /\ now < MaxTime
  /\ \E p \in VentaPayloads : ProcessEventV0(p)

DevolucionV0 ==
  /\ now < MaxTime
  /\ \E p \in DevolucionPayloads : ProcessEventV0(p)

\* quantities a sender of the JSON tab may choose besides the usual ones
JsonQuantities == {-2}

\* The earlier handleProcessJSON with an ingreso payload
IngresoJSONV0 ==
  /\ now < MaxTime
  /\ \E q \in JsonQuantities :
       ProcessEventV0(Payload("ingreso", "A", "", "Producto", q, <<2, 0>>, NoLot))

\* The earlier handleUndoSale(saleEvent): a devolucion of the sold quantity
UndoSaleV0 ==
  /\ now < MaxTime
  /\ db = "open"
  /\ \E n \in 1 .. Len(events) :
       /\ events[n].type = "venta"
       /\ ProcessEventV0(Payload("devolucion", events[n].sku, "", events[n].name,
                                 events[n].quantity, <<0, 0>>,
                                 Lot(<<"UNDO-">>, now + 1)))

\* existing.lot = `DEV-${existing.lot || Date.now()}`
PrependDev(lot, t) ==
  IF lot = NoLot THEN Lot(<<"DEV-">>, t)
  ELSE [lot EXCEPT !.tag = <<"DEV-">> \o @]

\* stages of the earlier inventory return (unnamed/part_000), a transaction over
\* batches and movements: batch put, movement add
InventoryReturnStagesV0(snap, id, t) ==
  LET before == snap.batches[id]
      existing == [before EXCEPT !.lot = PrependDev(before.lot, t), !.quantity = 0]
      mov == [type |-> "devolucion_compra", sku |-> existing.product_sku,
              name |-> IF existing.product_sku \in DOMAIN snap.products
                       THEN snap.products[existing.product_sku].name
                       ELSE existing.product_sku,
              quantity |-> 0, price |-> existing.purchase_price,
              lot |-> existing.lot, sale_id |-> NoKey, return_id |-> NoId]
      s1 == [snap EXCEPT !.batches[id] = existing]
      s2 == [s1 EXCEPT !.movements = Append(@, mov)]
  IN <<snap, s1, s2>>

\* The earlier handleReturn(batch, mode) (unnamed/part_000), from the button of
\* a row of the table: mode 'ventas' sends a devolucion of the row through
\* handleProcessEvent, mode 'inventario' marks the batch as returned.
ReturnV0 ==
  /\ now < MaxTime
  /\ db = "open"
  /\ \E n \in 1 .. Len(uiBatches), mode \in {"ventas", "inventario"} :
       LET batch == uiBatches[n]
       IN /\ ReturnButtonShown(batch)
          /\ IF mode = "ventas"
             THEN ProcessEventV0(
                    Payload("devolucion", batch.product_sku, "",
                            IF batch.product_sku \in DOMAIN products
                            THEN products[batch.product_sku].name
                            ELSE batch.product_sku,
                            OrElse(batch.quantity, 1), <<batch.purchase_price, 0>>,
                            Lot(<<"UNDO-">>, now + 1)))
             ELSE IF batch.id > Len(batches)
             THEN FinishV0("inventory_return", "batch_not_found", "", 0, Snapshot, events)
             ELSE LET stages == InventoryReturnStagesV0(Snapshot, batch.id, now + 1)
                  IN \E failAt \in 0 .. (Len(stages) - 1) :
                       FinishV0("inventory_return",
                                IF failAt = 0 THEN "ok" ELSE "storage_error",
                                batches[batch.id].product_sku, batches[batch.id].quantity,
                                TxResult(stages, failAt), events)

NextV0 ==
  \/ Connect
  \/ Disconnect
  \/ IngresoV0
  \/ VentaV0
  \/ DevolucionV0
  \/ UndoSaleV0
  \/ ReturnV0
  \/ IngresoJSONV0

SpecV0 == Init /\ [][NextV0]_vars

\* ------------------------------------------------------------------ App.jsx, all handlers

Next ==
  \/ Connect
  \/ Disconnect
  \/ SensorToggle
  \/ Ingreso
  \/ Venta
  \/ Devolucion
  \/ UndoSale
  \/ InventoryReturn
  \/ AddProduct

Spec == Init /\ [][Next]_vars

\* ------------------------------------------------------------------ App.jsx, equal created_at
\* created_at is nowISO(), a clock of millisecond resolution: two ingresos that
\* commit within the same millisecond leave two batches with equal created_at.

\* the stores after an ingreso of payload p that commits at clock t on stores snap
AfterIngreso(snap, p, t) ==
  LET stages == IngresoStages(snap, p, BaseMovement(p, t), t)
  IN stages[Len(stages)]

\* The application, connected, after two ingresos of sku A that read the same
\* clock value.
InitTie ==
  \E q1 \in QtySet, q2 \in QtySet :
    LET p1 == Payload("ingreso", "A", "", "Producto", q1, <<2, 0>>, NoLot)
        p2 == Payload("ingreso", "A", "", "Producto", q2, <<2, 0>>, NoLot)
        empty == [products |-> NoProducts, batches |-> <<>>, sales |-> <<>>,
                  returns |-> <<>>, movements |-> <<>>]
        snap == AfterIngreso(AfterIngreso(empty, p1, 1), p2, 1)
    IN /\ db = "open"
       /\ connected = TRUE
       /\ salesSensorConnected = TRUE
       /\ products = snap.products
       /\ batches = snap.batches
       /\ sales = snap.sales
       /\ returns = snap.returns
       /\ movements = snap.movements
       /\ events = PushEvent(PushEvent(<<>>, BaseMovement(p1, 1), "ingreso_inventario", 1),
                             BaseMovement(p2, 1), "ingreso_inventario", 1)
       /\ uiBatches = snap.batches
       /\ now = 1
       /\ last = [op |-> "ingreso", result |-> "ok", sku |-> "A",
                  quantity |-> BaseMovement(p2, 1).quantity, t |-> 1]
       /\ panel = PanelIdle
       /\ app = AppReady

SpecTie == InitTie /\ [][Next]_vars

\* ------------------------------------------------------------------ App.jsx, JSON tab
\* handleProcessJSON hands whatever JSON.parse returns to handleProcessEvent:
\* the lot and the prices of the payload are the sender's choice.

\* lots a sender may choose: none, or one that begins like a return tag
JsonLots == {NoLot, Lot(<<"DEV-">>, 0)}

\* <<purchase_price, sale_price>> a sender may choose
JsonPrices == {<<2, 0>>, <<4, 2>>, <<0, 0>>, <<0, 4>>}

JsonIngresoPayloads ==
  { Payload("ingreso", "A", "", "Producto", 2, pp, l) : pp \in JsonPrices, l \in JsonLots }

\* handleProcessJSON with an ingreso payload
IngresoJSON == ProcessIngreso(JsonIngresoPayloads)

\* a parsed JSON whose event is none of ingreso, venta and devolucion
JsonOtherPayloads ==
  { Payload("ajuste", "A", "", name, 2, <<2, 0>>, NoLot) : name \in {"Producto", ""} }

\* handleProcessJSON with such a payload: handleProcessEvent passes its guards,
\* enters no branch of the if / else if chain, and goes on to the feed update
\* (eventType falls to 'devolucion_venta') and to refreshData
OtherEventJSON ==
  /\ now < MaxTime
  /\ \E p \in JsonOtherPayloads :
       LET t == now + 1
           m == BaseMovement(p, t)
           pre == Precheck(p)
       IN IF pre # "ok"
          THEN Finish(p.event, pre, m.sku, m.quantity, Snapshot, events)
          ELSE Finish(p.event, "ok", m.sku, m.quantity, Snapshot,
                      PushEvent(events, m, "devolucion_venta", t))

NextJSON ==
  \/ OtherEventJSON
  \/ Connect
  \/ Disconnect
  \/ SensorToggle
  \/ IngresoJSON
  \/ Venta
  \/ Devolucion
  \/ UndoSale
  \/ InventoryReturn
  \/ AddProduct

SpecJSON == Init /\ [][NextJSON]_vars

(***************************************************************************)
(* Reports computed from the movements.  Every movement of the model is    *)
(* written by the one operator of settings, on the day of the report.      *)
(***************************************************************************)
OfType(ms, type) == SelectSeq(ms, LAMBDA m : m.type = type)

OfSku(ms, sku) == SelectSeq(ms, LAMBDA m : m.sku = sku)

\* InventoryTable: netSales[m.sku] += quantity for 'venta', -= for 'devolucion'
netSales(ms, sku) ==
  SumQuantity(OfType(OfSku(ms, sku), "venta"))
    - SumQuantity(OfType(OfSku(ms, sku), "devolucion"))

\* handleSimulateScan: stockByProduct[sku], from the batches prop
stockByProduct(bs, sku) ==
  SumQuantity(SelectSeq(bs, LAMBDA batch :
    /\ batch.product_sku = sku
    /\ ~StartsWith(batch.lot, <<"DEV-">>)
    /\ ~StartsWith(batch.lot, <<"UNDO-">>)))

\* handleExportInventory: productSummary[sku].totalStock, from the batches state
productSummary(bs, sku) ==
  SumQuantity(SelectSeq(bs, LAMBDA batch :
    batch.product_sku = sku /\ batch.quantity > 0))

\* handleDailyReport: the row of the operator in the summary sheet
operatorStats(ms) ==
  [ventas |-> SumQuantity(OfType(ms, "venta")),
   compras |-> SumQuantity(OfType(ms, "ingreso")),
   devoluciones |-> SumQuantity(OfType(ms, "devolucion"))]

(***************************************************************************)
(* SimulatePanel.  A scan, started by the button or by the continuous-mode *)
(* interval, sets isScanning and arms a 1500 ms timeout; the timeout calls *)
(* onProcessEvent without awaiting it and clears isScanning.  The manual   *)
(* form calls onProcessEvent directly.  handleProcessEvent is async: from  *)
(* its call to the end of its transaction the operation is in flight.      *)
(***************************************************************************)
MaxTimers == 2
MaxInFlight == 3

PanelStep(p) ==
  /\ panel' = p
  /\ UNCHANGED <<app, db, connected, salesSensorConnected, stores, events, uiBatches, now, last>>

\* the body of handleSimulateScan up to setTimeout
StartScan(p) == [p EXCEPT !.isScanning = TRUE, !.timers = @ + 1]

\* the "Modo continuo" checkbox, disabled while not connected
ToggleContinuous ==
  /\ connected
  /\ PanelStep([panel EXCEPT !.continuousMode = ~@])

\* the scan button, disabled={!connected || isScanning}
ScanClick ==
  /\ connected /\ ~panel.isScanning
  /\ panel.timers < MaxTimers
  /\ PanelStep(StartScan(panel))

\* setInterval(() => handleSimulateScan(), 3000) while continuousMode && connected;
\* handleSimulateScan itself only tests connected
IntervalTick ==
  /\ panel.continuousMode /\ connected
  /\ panel.timers < MaxTimers
  /\ PanelStep(StartScan(panel))

\* the setTimeout callback: onProcessEvent(simulatedPayload); setIsScanning(false)
ScanTimeout ==
  /\ panel.timers > 0
  /\ panel.inFlight < MaxInFlight
  /\ PanelStep([panel EXCEPT !.timers = @ - 1, !.inFlight = @ + 1, !.isScanning = FALSE])

\* handleFormSubmit with valid prices: onProcessEvent(payload); the submit
\* button is disabled={!connected}
FormSubmit ==
  /\ connected
  /\ panel.inFlight < MaxInFlight
  /\ PanelStep([panel EXCEPT !.inFlight = @ + 1])

\* An operation in flight runs handleProcessEvent to its end.  Its guard
\* read connected when the handler was called, from the closure of the render
\* that started it: the form and the scan button are enabled only while
\* connected, the interval exists only while connected, and the timeout
\* callback keeps the onProcessEvent of the render of its scan.
IngresoLands == panel.inFlight > 0 /\ ProcessIngresoAs(IngresoPayloads, TRUE)

NextScan ==
  \/ Connect
  \/ Disconnect
  \/ ToggleContinuous
  \/ ScanClick
  \/ IntervalTick
  \/ ScanTimeout
  \/ FormSubmit
  \/ IngresoLands

SpecScan == Init /\ [][NextScan]_vars

(***************************************************************************)
(* Overlapping ventas.  handleProcessEvent checks its guards and reads the *)
(* product when it is called; its readwrite transaction over sales,        *)
(* batches and movements runs later, and IndexedDB runs the readwrite      *)
(* transactions of overlapping scope one after the other.  A venta that    *)
(* has read its product is kept in panel.ventas until its transaction      *)
(* runs; seen is the stock of its sku at that moment.                      *)
(***************************************************************************)
MaxOverlap == 2

\* a stock check on the batches as they were when the handler was called
StartStock(bs, sku, seen) == seen

\* totalStock of allBatches = await batchStore.getAll(), inside the transaction
TxStock(bs, sku, seen) == TotalStock(bs, sku)

Without(seq, k) == SubSeq(seq, 1, k - 1) \o SubSeq(seq, k + 1, Len(seq))

\* the well-formed payloads of the simulator: a sku, a name and a quantity
ScanIngresoPayloads ==
  { Payload("ingreso", s, "", "Producto", q, pp, NoLot) :
      s \in Skus, q \in QtySet, pp \in PricePairs }

ScanVentaPayloads ==
  { Payload("venta", s, "", "Producto", q, <<0, 4>>, NoLot) :
      s \in Skus, q \in VentaQtySet }

ScanIngreso == ProcessIngreso(ScanIngresoPayloads)

\* handleProcessEvent(payload) for a venta, up to db.transaction(...)
VentaStart ==
  /\ Len(panel.ventas) < MaxOverlap
  /\ \E p \in ScanVentaPayloads :
       LET m0 == BaseMovement(p, now + 1)
           pre == Precheck(p)
           known == m0.sku \in DOMAIN products
           m == IF known
                THEN [m0 EXCEPT !.price = OrElse(products[m0.sku].default_sale_price, @)]
                ELSE m0
       IN IF pre # "ok"
          THEN Finish("venta", pre, m.sku, m.quantity, Snapshot, events)
          ELSE IF ~connected \/ ~salesSensorConnected
          THEN Finish("venta", "sensor_required", m.sku, m.quantity, Snapshot, events)
          ELSE IF ~known
          THEN Finish("venta", "product_not_found", m.sku, m.quantity, Snapshot, events)
          ELSE PanelStep([panel EXCEPT !.ventas =
                            Append(@, [m |-> m, seen |-> TotalStock(batches, m.sku)])])

\* the transaction of a venta that was started: stock check, FIFO puts, sale
\* and movement, and the feed update after it
VentaTx ==
  /\ now < MaxTime
  /\ \E k \in 1 .. Len(panel.ventas) :
       LET v == panel.ventas[k]
           m == v.m
           t == now + 1
           rest == [panel EXCEPT !.ventas = Without(@, k)]
       IN IF m.quantity > TxStock(batches, m.sku, v.seen)
          THEN FinishAs("venta", "insufficient_stock", m.sku, m.quantity,
                        Snapshot, events, rest)
          ELSE LET stages == VentaStages(Snapshot, m, t)
               IN \E failAt \in 0 .. (Len(stages) - 1) :
                    FinishAs("venta",
                             IF failAt = 0 THEN "ok" ELSE "storage_error",
                             m.sku, m.quantity, TxResult(stages, failAt),
                             PushEvent(events, m, "venta", t), rest)

\* the bracelet and the sales sensor are connected and the ledger is empty
InitRace ==
  /\ db = "open"
  /\ connected = TRUE
  /\ salesSensorConnected = TRUE
  /\ products = NoProducts
  /\ batches = <<>>
  /\ sales = <<>>
  /\ returns = <<>>
  /\ movements = <<>>
  /\ events = <<>>
  /\ uiBatches = <<>>
  /\ now = 0
  /\ last = NoOp
  /\ panel = PanelIdle
  /\ app = AppReady

NextRace ==
  \/ ScanIngreso
  \/ VentaStart
  \/ VentaTx

SpecRace == InitRace /\ [][NextRace]_vars

(***************************************************************************)
(* The connection state machine of App: mount, onboarding, the device      *)
(* panel, reconfiguration and the reset of the database.  While settings   *)
(* is null App renders the onboarding form in place of the panels.         *)
(***************************************************************************)
\* formData.operators as an onboarding may send them
OperatorLists == {<<"", "", "">>, <<"Ana", "", "">>, <<"Ana", "Luis", "">>}

\* SIMULATED_DEVICES.map((d, i) => ({...d, operator: ops[i] || d.operator}))
Mapped(ops) == [i \in DeviceIds |-> OrElseStr(ops[i], "")]

\* useState of App before any setting exists
AppFresh ==
  [settings |-> "null",
   devices |-> <<"", "", "">>,
   selectedDevice |-> [id |-> 1, operator |-> ""],
   simSinceReset |-> 0]

\* setDevices(mapped); setSelectedDevice(mapped[0]); setSettings(...)
Onboarded(a, ops) ==
  [a EXCEPT !.settings = "set",
            !.devices = Mapped(ops),
            !.selectedDevice = [id |-> 1, operator |-> Mapped(ops)[1]]]

\* SimulatePanel leaves the screen: its state is lost and its interval is
\* cleared; the timeouts already set and the operations in flight remain
Unmounted(p) ==
  [p EXCEPT !.isScanning = FALSE, !.continuousMode = FALSE, !.interval = NoClosure]

\* the mount effect: initDB, then either no saved settings or saved settings,
\* which select the first bracelet and connect it
InitDevice ==
  /\ db = "open"
  /\ salesSensorConnected = FALSE
  /\ products = NoProducts
  /\ batches = <<>>
  /\ sales = <<>>
  /\ returns = <<>>
  /\ movements = <<>>
  /\ events = <<>>
  /\ uiBatches = <<>>
  /\ now = 0
  /\ last = NoOp
  /\ panel = PanelIdle
  /\ \/ app = AppFresh /\ connected = FALSE
     \/ \E ops \in OperatorLists : app = Onboarded(AppFresh, ops) /\ connected = TRUE

\* handleOnboardingComplete(formData)
OnboardingComplete ==
  /\ app.settings = "null"
  /\ \E ops \in OperatorLists : app' = Onboarded(app, ops)
  /\ connected' = TRUE
  /\ UNCHANGED <<db, salesSensorConnected, stores, events, uiBatches, now, last, panel>>

\* handleReconfigurar
Reconfigurar ==
  /\ app.settings = "set"
  /\ app' = [app EXCEPT !.settings = "null"]
  /\ panel' = Unmounted(panel)
  /\ UNCHANGED <<db, connected, salesSensorConnected, stores, events, uiBatches, now, last>>

\* resetDatabase, confirmed, with deleteDatabase succeeding
ResetDatabase ==
  /\ app.settings = "set"
  /\ db' = "null"
  /\ products' = NoProducts
  /\ batches' = <<>>
  /\ sales' = <<>>
  /\ returns' = <<>>
  /\ movements' = <<>>
  /\ events' = <<>>
  /\ uiBatches' = <<>>
  /\ app' = [app EXCEPT !.settings = "null", !.simSinceReset = 0]
  /\ panel' = Unmounted(panel)
  /\ last' = [op |-> "reset", result |-> "ok", sku |-> "", quantity |-> 0, t |-> now]
  /\ UNCHANGED <<connected, salesSensorConnected, now>>

\* handleDeviceChange(device), refused while connected
DeviceChange ==
  /\ app.settings = "set"
  /\ ~connected
  /\ \E d \in DeviceIds :
       app' = [app EXCEPT !.selectedDevice = [id |-> d, operator |-> app.devices[d]]]
  /\ UNCHANGED <<db, connected, salesSensorConnected, stores, events, uiBatches, now,
                 last, panel>>

\* the manual form, on screen when settings exist, sends a valid ingreso
FormIngreso == app.settings = "set" /\ ProcessIngreso(ScanIngresoPayloads)

NextDevice ==
  \/ OnboardingComplete
  \/ Reconfigurar
  \/ ResetDatabase
  \/ Connect
  \/ Disconnect
  \/ SensorToggle
  \/ DeviceChange
  \/ FormIngreso

SpecDevice == InitDevice /\ [][NextDevice]_vars

\* After a reset: the user completes the onboarding whenever it is shown and
\* keeps sending a valid ingreso from the form; the bracelet stays as the
\* onboarding connected it.
IngresoAccepted == FormIngreso /\ last'.result = "ok"

NextRecovery ==
  \/ OnboardingComplete
  \/ ResetDatabase
  \/ FormIngreso

SpecRecovery ==
  /\ InitDevice
  /\ [][NextRecovery]_vars
  /\ WF_vars(OnboardingComplete)
  /\ SF_vars(IngresoAccepted)

(***************************************************************************)
(* The seed phase of the simulator.  handleSimulateScan reads simSinceReset *)
(* and batches from the props of the render that created it: a manual scan *)
(* uses the closure of the render of the click, the interval the closure   *)
(* of the render in which the effect ran (continuousMode or connected      *)
(* changed).  The specification starts when all scans of the seed phase    *)
(* but the last have been processed.                                       *)
(***************************************************************************)
\* simSinceReset < 10
SeedScans == 10

\* stock >= 5
StockFloor == 5

MaxScans == 11

\* Object.values(stockByProduct).some(stock => stock >= 5)
HasStock(bs) == \E sku \in Skus : stockByProduct(bs, sku) >= StockFloor

\* the closure of the current render
Capture == [seed |-> app.simSinceReset, hasStock |-> HasStock(uiBatches)]

SeedPayload == Payload("ingreso", "A", "", "Producto", 2, <<2, 0>>, NoLot)

\* the ingresos the simulator builds: a product of the list, its prices
SeedIngresoPayloads ==
  { Payload("ingreso", s, "", "Producto", 2, <<2, 0>>, NoLot) : s \in Skus }

\* the ledger after n seed ingresos, the last of them at time 0
RECURSIVE SeedLedger(_)
SeedLedger(n) ==
  IF n = 0
  THEN [products |-> NoProducts, batches |-> <<>>, sales |-> <<>>,
        returns |-> <<>>, movements |-> <<>>]
  ELSE AfterIngreso(SeedLedger(n - 1), SeedPayload, n - (SeedScans - 1))

RECURSIVE SeedFeed(_)
SeedFeed(n) ==
  IF n = 0 THEN <<>>
  ELSE PushEvent(SeedFeed(n - 1), BaseMovement(SeedPayload, n - (SeedScans - 1)),
                 "ingreso_inventario", n - (SeedScans - 1))

InitSeed ==
  LET done == SeedScans - 1
      snap == SeedLedger(done)
  IN /\ db = "open"
     /\ connected = TRUE
     /\ salesSensorConnected = TRUE
     /\ products = snap.products
     /\ batches = snap.batches
     /\ sales = snap.sales
     /\ returns = snap.returns
     /\ movements = snap.movements
     /\ events = SeedFeed(done)
     /\ uiBatches = snap.batches
     /\ now = 0
     /\ last = [op |-> "ingreso", result |-> "ok", sku |-> "A",
                quantity |-> BaseMovement(SeedPayload, 0).quantity, t |-> 0]
     /\ panel = [PanelIdle EXCEPT !.lastScan =
                   [n |-> done, forced |-> TRUE, event |-> "ingreso", hasStock |-> TRUE]]
     /\ app = [AppReady EXCEPT !.simSinceReset = done]

\* the checkbox: the effect runs again and, when it sets the interval, keeps
\* the handleSimulateScan of this render
SeedToggleContinuous ==
  /\ connected
  /\ PanelStep([panel EXCEPT !.continuousMode = ~@,
                             !.interval = IF panel.continuousMode THEN NoClosure
                                          ELSE Capture])

\* the scan button: handleSimulateScan of the current render
SeedScanClick ==
  /\ connected /\ ~panel.isScanning
  /\ Len(panel.scans) < MaxTimers
  /\ PanelStep([panel EXCEPT !.isScanning = TRUE, !.scans = Append(@, Capture)])

\* the interval: handleSimulateScan of the render of the effect
SeedIntervalTick ==
  /\ panel.continuousMode /\ connected
  /\ Len(panel.scans) < MaxTimers
  /\ PanelStep([panel EXCEPT !.isScanning = TRUE, !.scans = Append(@, panel.interval)])

\* the timeout callback of the oldest scan: it chooses the event, counts the
\* scan when the seed test forces an ingreso, and calls onProcessEvent
SeedTimeout ==
  /\ panel.scans # <<>>
  /\ panel.inFlight < MaxInFlight
  /\ Len(panel.ventas) < MaxOverlap
  /\ panel.lastScan.n < MaxScans
  /\ LET c == Head(panel.scans)
         forced == c.seed < SeedScans
         fired(ev) ==
           [panel EXCEPT !.scans = Tail(@), !.isScanning = FALSE,
                         !.lastScan = [n |-> @.n + 1, forced |-> forced, event |-> ev,
                                       hasStock |-> HasStock(uiBatches)]]
     IN \/ /\ forced
           /\ app' = [app EXCEPT !.simSinceReset = @ + 1]
           /\ panel' = [fired("ingreso") EXCEPT !.inFlight = @ + 1]
           /\ UNCHANGED <<db, connected, salesSensorConnected, stores, events,
                          uiBatches, now, last>>
        \/ /\ ~forced
           /\ PanelStep([fired("ingreso") EXCEPT !.inFlight = @ + 1])
        \/ /\ ~forced /\ c.hasStock
           /\ \E p \in ScanVentaPayloads :
                LET m0 == BaseMovement(p, now + 1)
                    m == [m0 EXCEPT !.price = OrElse(products[m0.sku].default_sale_price, @)]
                IN /\ m0.sku \in DOMAIN products
                   /\ stockByProduct(uiBatches, m0.sku) >= StockFloor
                   /\ PanelStep([fired("venta") EXCEPT !.ventas =
                                   Append(@, [m |-> m,
                                              seen |-> TotalStock(batches, m.sku)])])

\* the ingreso of a scan runs handleProcessEvent to its end
SeedIngresoLands == panel.inFlight > 0 /\ ProcessIngresoAs(SeedIngresoPayloads, TRUE)

NextSeed ==
  \/ SeedToggleContinuous
  \/ SeedScanClick
  \/ SeedIntervalTick
  \/ SeedTimeout
  \/ SeedIngresoLands
  \/ VentaTx

SpecSeed == InitSeed /\ [][NextSeed]_vars

\* ------------------------------------------------------------------ properties

\* a step in which a handler committed its transaction
Committed == now' = now + 1

\* a step in which a handler was invoked
Invoked(op) == last' # last /\ last'.op = op

\* C1: a venta that asks for more than the stock of its sku is rejected, and the
\* rejection leaves every batch as it was and creates no sale and no movement.
C1_AllOrNothingVenta ==
  [][last'.result = "insufficient_stock"
       => batches' = batches /\ sales' = sales /\ movements' = movements]_vars

\* C2: every batch has quantity >= 0 in every reachable state, and so the stock
\* of every sku is >= 0.
C2_StockNonNegative ==
  /\ \A i \in 1 .. Len(batches) : batches[i].quantity >= 0
  /\ \A sku \in Skus : TotalStock(batches, sku) >= 0

\* C2 witness: an accepted venta that emptied one batch and went on to the next
C2_Witness ==
  /\ last.op = "venta" /\ last.result = "ok"
  /\ Len(sales[Len(sales)].batches_used) = 2
  /\ \E i \in 1 .. Len(batches) : batches[i].quantity = 0

\* the batches a venta of the sku may draw from, as positions in the store
Eligible(bs, sku) == {i \in 1 .. Len(bs) : EligibleForSale(bs[i], sku)}

\* batch i is older than batch j (creation time, then id)
Older(bs, i, j) ==
  \/ bs[i].created_at < bs[j].created_at
  \/ bs[i].created_at = bs[j].created_at /\ i < j

\* C3: an accepted venta of q units takes min(remaining of the batch, still
\* needed) from the eligible batches of the sku from the oldest on until q is
\* covered, lists them in batches_used in that order, leaves every other batch
\* alone, and decrements no batch while an older eligible one keeps stock.
C3_Fifo ==
  [][(Committed /\ last'.op = "venta") =>
       LET sku == last'.sku
           q == last'.quantity
           used == sales'[Len(sales')].batches_used
           el == Eligible(batches, sku)
           usedIds == {used[i].batchId : i \in 1 .. Len(used)}
       IN /\ Len(sales') = Len(sales) + 1
          /\ Len(batches') = Len(batches)
          /\ SumQuantity(used) = q
          /\ usedIds \subseteq el
          /\ \A i \in 1 .. Len(used) :
               /\ used[i].quantity =
                    Min(batches[used[i].batchId].quantity,
                        q - SumQuantity(SubSeq(used, 1, i - 1)))
               /\ used[i].quantity > 0
               /\ batches'[used[i].batchId].quantity =
                    batches[used[i].batchId].quantity - used[i].quantity
          /\ \A i, j \in 1 .. Len(used) :
               i < j => Older(batches, used[i].batchId, used[j].batchId)
          /\ \A i \in 1 .. Len(batches) :
               i \notin usedIds => batches'[i] = batches[i]
          /\ \A i, j \in el :
               (Older(batches, i, j) /\ batches'[j].quantity < batches[j].quantity)
                 => batches'[i].quantity = 0]_vars

\* C3 witness: the older batch held 2 and the newer 2, a venta of 3 left 0 and 1
\* and lists the older batch first.
C3_Witness ==
  /\ last.op = "venta" /\ last.result = "ok" /\ last.quantity = 3
  /\ Len(batches) = 2
  /\ batches[1].created_at < batches[2].created_at
  /\ batches[1].quantity = 0 /\ batches[2].quantity = 1
  /\ sales[Len(sales)].batches_used =
       <<[batchId |-> 1, quantity |-> 2, purchase_price |-> 2],
         [batchId |-> 2, quantity |-> 1, purchase_price |-> 2]>>

\* C4: for every sku, in every reachable state, the quantities of its Return
\* records sum to at most the quantities of its completed sales.
C4_ReturnBalance ==
  \A sku \in Skus : ReturnedTotal(returns, sku) <= SoldTotal(sales, sku)

\* the sale that a step cancelled: completed before the step, cancelled after it
Cancelled(i) ==
  /\ i \in 1 .. Len(sales) /\ Len(sales') = Len(sales)
  /\ sales[i].status = "completed" /\ sales'[i].status = "cancelled"

\* C5: an undo-sale invoked from the feed entry of an accepted venta finds the
\* sale of that venta (unless the store fails or the sale is already cancelled)
\* and ends with that sale cancelled, one new Return whose original_sale_id is
\* the sale's id, one new batch tagged UNDO-{returnId}, and one new movement of
\* type anulacion_venta carrying that sale_id and the return_id.
C5_UndoReachesTarget ==
  [][(Invoked("undo") /\ last'.result \notin {"storage_error", "already_cancelled"}) =>
       \E i \in 1 .. Len(sales) :
         /\ Cancelled(i)
         /\ Len(returns') = Len(returns) + 1
         /\ Len(batches') = Len(batches) + 1
         /\ Len(movements') = Len(movements) + 1
         /\ LET ret == returns'[Len(returns')]
                b == batches'[Len(batches')]
                m == movements'[Len(movements')]
            IN /\ ret.original_sale_id = sales[i].id
               /\ b.lot = Lot(<<"UNDO-">>, ret.id)
               /\ m.type = "anulacion_venta"
               /\ m.sale_id = sales[i].id
               /\ m.return_id = ret.id]_vars

\* C6: an undo-sale either cancels exactly one completed sale and adds its
\* quantity back to stock once, or is rejected because the sale was already
\* cancelled, and a rejected undo creates no Return, no Batch, no Movement and
\* leaves stock as it was.
C6_CancelOnce ==
  [][Invoked("undo") =>
       \/ /\ last'.result = "storage_error"
          /\ stores' = stores
       \/ /\ last'.result = "ok"
          /\ \E i \in 1 .. Len(sales) :
               /\ Cancelled(i)
               /\ \A j \in 1 .. Len(sales) : j # i => sales'[j] = sales[j]
       \/ /\ last'.result = "already_cancelled"
          /\ \E i \in 1 .. Len(sales) : sales[i].status = "cancelled"
          /\ stores' = stores]_vars

\* C7: an undo-sale of a sale of q units raises the stock of the sku, as the
\* venta stock check computes it, by q (back to the stock before the sale), and
\* the compensating batch carries the purchase price of batches_used[0].
C7_UndoInverse ==
  [][(Invoked("undo") /\ last'.result \notin {"storage_error", "already_cancelled"}) =>
       \E i \in 1 .. Len(sales) :
         /\ Cancelled(i)
         /\ TotalStock(batches', sales[i].sku) =
              TotalStock(batches, sales[i].sku) + sales[i].quantity
         /\ Len(batches') = Len(batches) + 1
         /\ batches'[Len(batches')].quantity = sales[i].quantity
         /\ batches'[Len(batches')].purchase_price =
              sales[i].batches_used[1].purchase_price]_vars

\* the movement type the ledger names for each kind of event
KindOf(op) ==
  CASE op = "ingreso" -> "ingreso"
    [] op = "venta" -> "venta"
    [] op = "devolucion" -> "devolucion_venta"
    [] op = "undo" -> "anulacion_venta"
    [] op = "inventory_return" -> "devolucion_inventario"
    [] OTHER -> ""

\* C8: every accepted ingreso, venta, devolucion, undo-sale and inventory return
\* appends exactly one movement, whose sku, quantity and type are the event's
\* sku, the quantity the event moved, and the event's kind.
C8_AuditComplete ==
  [][(Committed /\ last'.op # "add_product") =>
       /\ Len(movements') = Len(movements) + 1
       /\ SubSeq(movements', 1, Len(movements)) = movements
       /\ LET m == movements'[Len(movements')]
          IN /\ m.sku = last'.sku
             /\ m.quantity = last'.quantity
             /\ m.type = KindOf(last'.op)]_vars

\* C9: every step that creates or changes a Batch, Sale or Return record, the
\* quick-add of a product included, appends exactly one movement in the same
\* transaction.
C9_MovementPerChange ==
  [][(batches' # batches \/ sales' # sales \/ returns' # returns) =>
       /\ Len(movements') = Len(movements) + 1
       /\ SubSeq(movements', 1, Len(movements)) = movements]_vars

\* C10: an operation whose transaction fails at any of its writes leaves every
\* store as it was, and the stores change only in a step whose operation
\* committed all of its writes.
C10_Atomic ==
  [][/\ (last' # last /\ last'.result = "storage_error") => stores' = stores
     /\ stores' # stores => (Committed /\ last'.result = "ok")]_vars

\* C10 witness: the store failed inside a venta that had stock to draw from, and
\* no sale, no movement of it and no decrement is visible.
C10_Witness ==
  /\ last.op = "venta" /\ last.result = "storage_error"
  /\ sales = <<>>
  /\ \E sku \in Skus :
       /\ TotalStock(batches, sku) >= 2
       /\ \A i \in 1 .. Len(movements) : movements[i].type # "venta"
  /\ \A i \in 1 .. Len(batches) : batches[i].quantity > 0

\* C11: a devolucion that asks for more than the sold and not yet returned units
\* of its sku is rejected, and the rejection leaves no Return, no Batch and no
\* Movement behind.
C11_OverReturnRejected ==
  [][last'.result = "over_return"
       => returns' = returns /\ batches' = batches /\ movements' = movements]_vars

\* C12: an accepted devolucion of q units raises the stock of its sku, as the
\* venta check computes it, by q, and the DEV-{returnId} batch it creates is one
\* a following venta may draw from.
C12_ReturnIsSaleable ==
  [][(Committed /\ last'.op = "devolucion") =>
       /\ TotalStock(batches', last'.sku) =
            TotalStock(batches, last'.sku) + last'.quantity
       /\ Len(batches') = Len(batches) + 1
       /\ EligibleForSale(batches'[Len(batches')], last'.sku)]_vars

\* C13: an inventory return on a batch that does not exist or is already
\* returned changes nothing, and an accepted one marks one batch that was not
\* yet returned, leaving it with quantity 0, status returned and the lot
\* DEV-INV-{returnId}, and every other batch as it was.
C13_InventoryReturnGuard ==
  [][Invoked("inventory_return") =>
       IF last'.result = "ok"
       THEN /\ Len(batches') = Len(batches)
            /\ \E id \in 1 .. Len(batches) :
                 /\ batches[id].status # "returned"
                 /\ batches'[id].quantity = 0
                 /\ batches'[id].status = "returned"
                 /\ batches'[id].return_id # NoId
                 /\ batches'[id].lot = Lot(<<"DEV-", "INV-">>, batches'[id].return_id)
                 /\ \A j \in 1 .. Len(batches) : j # id => batches'[j] = batches[j]
       ELSE stores' = stores]_vars

\* a lot that the table and the stock check read as a returned batch
ReadAsReturned(lot) == StartsWith(lot, <<"DEV-">>) \/ StartsWith(lot, <<"UNDO-">>)

\* a batch that a return path created or retagged
FromReturnPath(b) == b.return_id # NoId \/ b.status = "returned"

\* C14: whatever lot the payload supplies, a batch created by an ingreso or by
\* the quick-add counts as stock of its sku, and a batch is read as returned
\* only if a return path created or retagged it.
C14_LotTagsUnambiguous ==
  \A i \in 1 .. Len(batches) :
    /\ ~FromReturnPath(batches[i]) => CountsAsStock(batches[i], batches[i].product_sku)
    /\ ReadAsReturned(batches[i].lot) => FromReturnPath(batches[i])

\* C15: the Sale that an accepted venta creates has total = quantity times the
\* default_sale_price that the Product of its sku has at the time of the sale,
\* not the price of the payload.
C15_SaleTotal ==
  [][(Committed /\ last'.op = "venta") =>
       LET sale == sales'[Len(sales')]
       IN /\ Len(sales') = Len(sales) + 1
          /\ sale.sku \in DOMAIN products
          /\ sale.quantity = last'.quantity
          /\ sale.total = sale.quantity * products[sale.sku].default_sale_price]_vars

\* the records that a step appended to a store
Added(before, after) == SubSeq(after, Len(before) + 1, Len(after))

\* C16: whatever quantity the payload carries, every Batch, Sale, Return and
\* Movement record that an ingreso, venta or devolucion writes has a quantity
\* that is an integer >= 1, the same in all the records of the event.
C16_QuantityClamped ==
  [][(now' = now + 1 /\ last'.op \in {"ingreso", "venta", "devolucion"}) =>
       LET new == Added(movements, movements') \o Added(sales, sales')
                    \o Added(returns, returns') \o Added(batches, batches')
       IN \A i \in 1 .. Len(new) :
            new[i].quantity >= 1 /\ new[i].quantity = last'.quantity]_vars

\* C17: an event whose payload has neither sku nor barcode is rejected before
\* any write: the rejection changes no store, and no store ever receives a
\* record without an identifier.
C17_MissingIdentifier ==
  [][/\ last'.result = "missing_id" => stores' = stores
     /\ "" \notin DOMAIN products'
     /\ \A i \in 1 .. Len(batches') : batches'[i].product_sku # ""
     /\ \A i \in 1 .. Len(sales') : sales'[i].sku # ""
     /\ \A i \in 1 .. Len(returns') : returns'[i].sku # ""
     /\ \A i \in 1 .. Len(movements') : movements'[i].sku # ""]_vars

\* C18: an event is rejected for a missing name only when its sku has no
\* Product record yet; an event for an existing product passes the validation
\* with an empty name.
C18_NameForNewProductsOnly ==
  [][(last' # last /\ last'.result = "missing_name")
       => last'.sku \notin DOMAIN products]_vars

\* C19: a venta whose sku has no Product record is rejected with no side
\* effect: the rejection changes no store, and a venta that changes a batch or
\* writes a Sale or a Movement is a venta of a sku that has a Product record.
C19_UnknownProductVenta ==
  [][/\ last'.result = "product_not_found" => stores' = stores
     /\ (/\ last' # last /\ last'.op = "venta"
         /\ (batches' # batches \/ sales' # sales \/ movements' # movements))
          => last'.sku \in DOMAIN products]_vars

\* C20: every Product record, by whichever path it was created (an ingreso of
\* the form, of the simulator or of the JSON tab, or the quick-add), has
\* default_sale_price > default_purchase_price; a Product's prices are written
\* only when the record is created or replaced by the quick-add.
C20_PriceInvariant ==
  \A sku \in DOMAIN products :
    products[sku].default_sale_price > products[sku].default_purchase_price

\* the stores after an ingreso of payload p that commits in the present state
IngresoOutcome(p) ==
  LET stages == IngresoStages(Snapshot, p, BaseMovement(p, now + 1), now + 1)
  IN stages[Len(stages)]

\* C21: the Batch that an accepted ingreso creates has the purchase_price of
\* its payload, 0 when the payload has none, whether or not the payload carries
\* a sale_price: every committed ingreso is the ingreso of some payload whose
\* purchase_price is the one of the new Batch.
C21_IngresoBatchPrice ==
  [][(Committed /\ last'.op = "ingreso") =>
       \E p \in IngresoPayloads \cup JsonIngresoPayloads :
         /\ Precheck(p) = "ok"
         /\ <<products', batches', movements'>> =
              <<IngresoOutcome(p).products, IngresoOutcome(p).batches,
                IngresoOutcome(p).movements>>
         /\ batches'[Len(batches')].purchase_price = p.purchase_price]_vars

\* the position of batch id in batches_used, 0 when it was not used
UsedAt(used, id) ==
  IF \E k \in 1 .. Len(used) : used[k].batchId = id
  THEN CHOOSE k \in 1 .. Len(used) : used[k].batchId = id
  ELSE 0

KeepsIds(before, after) ==
  /\ Len(after) >= Len(before)
  /\ \A i \in 1 .. Len(before) : after[i].id = before[i].id

C24_OneAtATime == panel.timers + panel.inFlight <= 1

EventOps == {"ingreso", "venta", "devolucion"}

\* C25: while the device is not connected, processEvent applies no event: a
\* run of handleProcessEvent that ends while connected is false leaves the
\* products, batches, sales, returns and movements as they were.
C25_ConnectionPrecondition ==
  [][(~connected /\ last' # last /\ last'.op \in EventOps) => UNCHANGED stores]_vars

\* C26: for every sku the net sales of the ranking are the quantities of its
\* venta movements minus the quantities of its return movements as the ledger
\* stores them (type devolucion_venta).
C26_NetSales ==
  \A sku \in Skus :
    netSales(movements, sku) =
      SumQuantity(OfType(OfSku(movements, sku), "venta"))
        - SumQuantity(OfType(OfSku(movements, sku), "devolucion_venta"))

ReturnTypes == {"devolucion_venta", "devolucion_inventario"}

\* C27: in the daily summary the sale units are the quantities of the venta
\* movements, the ingreso count is the number of stored ingreso movements and
\* the return count is the number of stored return movements.
C27_DailyTotals ==
  /\ operatorStats(movements).ventas = SumQuantity(OfType(movements, "venta"))
  /\ operatorStats(movements).compras = Len(OfType(movements, "ingreso_inventario"))
  /\ operatorStats(movements).devoluciones =
       Len(SelectSeq(movements, LAMBDA m : m.type \in ReturnTypes))

\* C28: a devolucion is refused as an over-return only when the requested
\* quantity plus the quantity returned before this event exceeds the quantity
\* sold; the event's own record does not count against it.  In the ledger of
\* movements the sold units are the venta movements of the sku and the returned
\* units its devolucion movements, both as they were before the event.
C28_LegitimateReturnAccepted ==
  [][(last' # last /\ last'.op = "devolucion" /\ last'.result = "over_return"
        /\ last'.sku # "")
       => last'.quantity + MovedV0(movements, last'.sku, "devolucion")
            > MovedV0(movements, last'.sku, "venta")]_vars

Returnable(ss, rs, sku) == Max(0, SoldTotal(ss, sku) - ReturnedTotal(rs, sku))

\* C30: the returnable balance is per sale.  An inventory return of a purchase
\* batch takes nothing from what a devolucion may still return of any sku, and
\* an undo-sale takes from its sku no more than the units of the undone sale.
C30_ReturnableBalance ==
  [][(Committed /\ last'.op \in {"undo", "inventory_return"}) =>
       \A sku \in Skus :
         Returnable(sales', returns', sku) >=
           Returnable(sales, returns, sku)
             - (IF last'.op = "undo" /\ last'.sku = sku THEN last'.quantity ELSE 0)]_vars

\* the units of the sku held by all its batches, whatever their lot or status
AllQuantity(bs, sku) == SumQuantity(SelectSeq(bs, LAMBDA b : b.product_sku = sku))

\* what a committed operation of q units adds to the batches of its sku
Delta(op, q) ==
  IF op \in {"ingreso", "add_product", "devolucion", "undo"} THEN q
  ELSE IF op \in {"venta", "inventory_return"} THEN 0 - q
  ELSE 0

\* C31: quantity conservation.  Every step changes the sum of quantities over
\* the batches of a sku by the units of the committed operation on that sku
\* (ingreso, quick add, devolucion and undo add them, venta and inventory
\* return remove them) and by nothing else; with no batch at the start, the
\* sum is the signed total of the committed operations.
C31_QuantityConservation ==
  [][\A sku \in Skus :
       AllQuantity(batches', sku) =
         AllQuantity(batches, sku)
           + (IF Committed /\ last'.sku = sku
              THEN Delta(last'.op, last'.quantity) ELSE 0)]_vars

\* units entered, some sold and the rest taken out by an inventory return
C31_Witness ==
  /\ last.op = "inventory_return" /\ last.result = "ok" /\ last.quantity > 0
  /\ sales # <<>>
  /\ sales[Len(sales)].sku = last.sku
  /\ AllQuantity(batches, last.sku) = 0

\* the units a batches_used list takes from the batch of that id
UsedQuantity(used, id) == SumQuantity(SelectSeq(used, LAMBDA u : u.batchId = id))

\* C32: the audit trail of a Sale is exact.  In every state the entries of the
\* batches_used of every Sale are positive and add up to the quantity of the
\* Sale, and the venta that commits a Sale lowers every batch by exactly what
\* the list takes from it (nothing for a batch the list does not name).
C32_SaleAudit ==
  /\ [](\A n \in 1 .. Len(sales) :
          /\ SumQuantity(sales[n].batches_used) = sales[n].quantity
          /\ \A k \in 1 .. Len(sales[n].batches_used) :
               sales[n].batches_used[k].quantity > 0)
  /\ [][(Committed /\ last'.op = "venta") =>
          /\ Len(sales') = Len(sales) + 1
          /\ Len(batches') = Len(batches)
          /\ \A i \in 1 .. Len(batches) :
               batches'[i] =
                 [batches[i] EXCEPT !.quantity =
                    @ - UsedQuantity(sales'[Len(sales')].batches_used, batches[i].id)]]_vars

\* a sale of 3 units that took 2 from the older batch and 1 from the next
C32_Witness ==
  /\ last.op = "venta" /\ last.result = "ok" /\ last.quantity = 3
  /\ Len(sales[Len(sales)].batches_used) = 2
  /\ sales[Len(sales)].batches_used[1].quantity = 2
  /\ sales[Len(sales)].batches_used[2].quantity = 1

\* C33: no overselling when ventas overlap.  A venta that commits, whatever
\* other ventas were started before its transaction ran, takes from the stock
\* of its sku exactly the units it sells, every batch loses exactly what the
\* batches_used of the new Sale names, and no batch goes below 0; so the
\* ventas that overlap sell together no more than the stock there was.
C33_NoOverselling ==
  [][(Committed /\ last'.op = "venta") =>
       /\ TotalStock(batches', last'.sku) =
            TotalStock(batches, last'.sku) - last'.quantity
       /\ SumQuantity(sales'[Len(sales')].batches_used) = last'.quantity
       /\ \A i \in 1 .. Len(batches) :
            /\ batches'[i].quantity >= 0
            /\ batches'[i].quantity =
                 batches[i].quantity
                   - UsedQuantity(sales'[Len(sales')].batches_used, batches[i].id)]_vars

\* a venta has committed while another venta of the same sku, started when the
\* stock still covered it, waits for its transaction and is no longer covered
C33_Witness ==
  /\ last.op = "venta" /\ last.result = "ok"
  /\ \E k \in 1 .. Len(panel.ventas) :
       /\ panel.ventas[k].m.sku = last.sku
       /\ panel.ventas[k].m.quantity <= panel.ventas[k].seen
       /\ panel.ventas[k].m.quantity > TotalStock(batches, last.sku)

\* C34: one definition of stock.  For every sku the stock of the venta check,
\* the stock the simulator computes to choose a sale and the stock total of the
\* inventory export are equal.
C34_OneStock ==
  \A sku \in Skus :
    /\ TotalStock(batches, sku) = stockByProduct(uiBatches, sku)
    /\ TotalStock(batches, sku) = productSummary(uiBatches, sku)

\* C35: an entry is added to the event feed only for an event that was
\* applied.  A run of handleProcessEvent, whatever the kind of its event, adds
\* a feed entry if and only if it commits a Movement.
C35_FeedOnlyApplied ==
  [][(last' # last /\ last'.op \notin {"none", "undo", "inventory_return", "add_product"})
       => ((events' # events) <=> (movements' # movements))]_vars

\* C36: the sales sensor depends on the bracelet: in every reachable state
\* salesSensorConnected implies connected.
C36_SensorNeedsBracelet == salesSensorConnected => connected

\* C37: a connected bracelet has an operator.  In every reachable state
\* connected implies that the selected device has a non-empty operator, and
\* the selected device does not change while connected.
C37_ConnectedHasOperator ==
  /\ [](connected => app.selectedDevice.operator # "")
  /\ [][(connected /\ connected') => app'.selectedDevice = app.selectedDevice]_vars

\* C38: recovery after reset.  Once resetDatabase has succeeded, and with the
\* onboarding completed again, a valid ingreso is eventually accepted and
\* persisted (the clock of the model still allowing one more operation).
C38_RecoveryAfterReset ==
  (last.op = "reset" /\ now < MaxTime)
    ~> (last.op = "ingreso" /\ last.result = "ok" /\ movements # <<>>)

\* C39: the seed phase of the simulator ends.  The first 10 scans since a
\* reset are ingresos, and from the 11th scan on the ingreso is no longer
\* forced by the seed test when some product has enough stock, whether the
\* scan was started by the button or by the continuous-mode interval.
C39_SeedPhaseEnds ==
  /\ (panel.lastScan.n >= 1 /\ panel.lastScan.n <= SeedScans)
       => panel.lastScan.event = "ingreso"
  /\ (panel.lastScan.n > SeedScans /\ panel.lastScan.hasStock)
       => ~panel.lastScan.forced

====
